---- MODULE Spec2Model ----
(***************************************************************************)
(* Graph construction (create_graph) and degree-centrality aggregation     *)
(* (calculate_centrality) of src/main.rs, as a state machine.              *)
(*                                                                         *)
(* The petgraph DiGraph is an arena of node weights addressed by 0-based   *)
(* indices plus a list of directed edges <<source, target>>.               *)
(* Graph::neighbors(a) on a directed graph iterates the targets of the     *)
(* edges that START at a (outgoing edges only).                            *)
(* An Option<f64> is <<>> for None and <<v>> for Some(v).                  *)
(* A HashMap is a function whose DOMAIN is its key set.                    *)
(* An f64 quotient of two small integers is kept as the fraction in lowest *)
(* terms <<numerator, denominator>>.                                       *)
(***************************************************************************)
EXTENDS Integers, Sequences, FiniteSets, TLC

VARIABLES
    records,              \* the Vec<Record> handed to create_graph
    run,                  \* which pass over the same input (1 or 2)
    pc,                   \* position in main / create_graph / calculate_centrality
    graph,                \* [nodes, edges] of the DiGraph
    individual_nodes,     \* HashMap subject_id -> NodeIndex
    allergy_nodes,        \* HashMap allergy name -> NodeIndex
    next_allergy,         \* 1-based cursor of `for &allergy in allergies.iter()`
    next_record,          \* 1-based cursor of `for record in records`
    node,                 \* cursor of `for node in graph.node_indices()`
    gender_centrality, race_centrality, ethnicity_centrality,
    payer_centrality, cohort_centrality, allergy_centrality,
    gender_counts, race_counts, ethnicity_counts, payer_counts, cohort_counts,
    printed_degree,       \* NodeIndex -> degree printed for an Individual node
    averages,             \* dimension label -> (value -> printed average)
    first_report          \* the report of run 1, kept for comparison

vars == <<records, run, pc, graph, individual_nodes, allergy_nodes,
          next_allergy, next_record, node,
          gender_centrality, race_centrality, ethnicity_centrality,
          payer_centrality, cohort_centrality, allergy_centrality,
          gender_counts, race_counts, ethnicity_counts, payer_counts,
          cohort_counts, printed_degree, averages, first_report>>

centrality_vars == <<gender_centrality, race_centrality, ethnicity_centrality,
                     payer_centrality, cohort_centrality, allergy_centrality,
                     gender_counts, race_counts, ethnicity_counts, payer_counts,
                     cohort_counts, printed_degree>>

builder_vars == <<graph, individual_nodes, allergy_nodes, next_allergy, next_record>>

----------------------------------------------------------------------------
(* Bounds of the model *)

MaxRecords == 2

----------------------------------------------------------------------------
(* Option<f64> *)

None == <<>>

Some(v) == <<v>>

(* variant: a marker counts only when its value is positive *)
IsSomePositive(o) == Len(o) = 1 /\ o[1] > 0

IsSome(o) == Len(o) = 1

(* HashMap::new() *)
NewHashMap == [k \in {} |-> 0]

----------------------------------------------------------------------------
(* The two category lists *)

(* variant: the construction list lacks its last category *)
AllergiesWithoutCashew ==
    <<"Peanut", "Treenut", "Walnut", "Pecan", "Pistachio", "Almond", "Brazil",
      "Hazelnut">>

Allergies ==
    <<"Peanut", "Treenut", "Walnut", "Pecan", "Pistachio", "Almond", "Brazil",
      "Hazelnut", "Cashew">>

(* variant: the analysis list is the construction list *)
CentralityAllergiesAllNine ==
    <<"Peanut", "Treenut", "Walnut", "Pecan", "Pistachio", "Almond", "Brazil",
      "Hazelnut", "Cashew">>

CentralityAllergies ==
    <<"Peanut", "Treenut", "Walnut", "Pecan", "Pistachio", "Almond", "Cashew">>

Contains(list, x) == \E k \in 1..Len(list) : list[k] = x

----------------------------------------------------------------------------
(* Record::get_allergy_start *)

GetAllergyStart(record, allergy) ==
    CASE allergy = "Peanut"    -> record.peanut_alg_start
      [] allergy = "Treenut"   -> record.treenut_alg_start
      [] allergy = "Walnut"    -> record.walnut_alg_start
      [] allergy = "Pecan"     -> record.pecan_alg_start
      [] allergy = "Pistachio" -> record.pistach_alg_start
      [] allergy = "Almond"    -> record.almond_alg_start
      [] allergy = "Brazil"    -> record.brazil_alg_start
      [] allergy = "Hazelnut"  -> record.hazelnut_alg_start
      [] allergy = "Cashew"    -> record.cashew_alg_start
      [] OTHER                 -> None

----------------------------------------------------------------------------
(* petgraph DiGraph *)

NewGraph == [nodes |-> <<>>, edges |-> <<>>]

(* add_node: the new node's index is the node count before the call *)
AddNode(g, weight) == [g EXCEPT !.nodes = Append(@, weight)]

NodeCount(g) == Len(g.nodes)

(* variant: the edge is added from the category to the individual *)
AddEdgeReversed(g, a, b) == [g EXCEPT !.edges = Append(@, <<b, a>>)]

(* add_edge(a, b, ()): parallel edges are kept *)
AddEdge(g, a, b) == [g EXCEPT !.edges = Append(@, <<a, b>>)]

(* graph[node] *)
Weight(g, n) == g.nodes[n + 1]

(* variant: neighbors_directed(node, Incoming) *)
NeighborsCountIncoming(g, n) ==
    Cardinality({e \in 1..Len(g.edges) : g.edges[e][2] = n})

(* graph.neighbors(node).count(): edges starting at node *)
NeighborsCount(g, n) ==
    Cardinality({e \in 1..Len(g.edges) : g.edges[e][1] = n})

NutAllergyStatus(name) == [kind |-> "NutAllergyStatus", name |-> name]

IndividualOf(record) ==
    [kind                |-> "Individual",
     id                  |-> record.subject_id,
     gender              |-> record.gender_factor,
     race                |-> record.race_factor,
     ethnicity           |-> record.ethnicity_factor,
     payer_factor        |-> record.payer_factor,
     atopic_march_cohort |-> record.atopic_march_cohort]

(* HashMap::insert *)
Insert(m, key, value) ==
    [k \in DOMAIN m \cup {key} |-> IF k = key THEN value ELSE m[k]]

(* the inner `for &allergy in allergies.iter()` of create_graph, from the
   k-th category on *)
RECURSIVE AddAllergyEdges(_, _, _, _, _)
AddAllergyEdges(g, record, individual_node, an, k) ==
    IF k > Len(Allergies) THEN g
    ELSE LET allergy == Allergies[k]
             g1 == IF IsSome(GetAllergyStart(record, allergy))
                      /\ allergy \in DOMAIN an
                   THEN AddEdge(g, individual_node, an[allergy])
                   ELSE g
         IN  AddAllergyEdges(g1, record, individual_node, an, k + 1)

----------------------------------------------------------------------------
(* calculate_centrality helpers *)

(* variant: m.insert(key, degree), the running sum is overwritten *)
AddDegreeOverwrite(m, key, degree) ==
    [k \in DOMAIN m \cup {key} |-> IF k = key THEN degree ELSE m[k]]

(* *m.entry(key).or_insert(0.0) += degree *)
AddDegree(m, key, degree) ==
    IF key \in DOMAIN m THEN [m EXCEPT ![key] = @ + degree]
    ELSE Insert(m, key, 0 + degree)

(* variant: only an existing entry is incremented, none is created *)
AddCountExistingOnly(m, key) ==
    IF key \in DOMAIN m THEN [m EXCEPT ![key] = @ + 1] ELSE m

(* *m.entry(key).or_insert(0) += 1 *)
AddCount(m, key) ==
    IF key \in DOMAIN m THEN [m EXCEPT ![key] = @ + 1]
    ELSE Insert(m, key, 0 + 1)

(* bool::to_string *)
BoolToString(b) == IF b THEN "true" ELSE "false"

RECURSIVE Gcd(_, _)
Gcd(a, b) == IF b = 0 THEN a ELSE Gcd(b, a % b)

(* total_degree / count on f64, count >= 1 *)
Quotient(total, count) ==
    LET d == Gcd(total, count) IN <<total \div d, count \div d>>

(* one `for (value, total_degree) in <dim>_centrality.iter()` loop:
   count = *counts.get(value).unwrap_or(&1) *)
AverageOf(centrality, counts) ==
    [value \in DOMAIN centrality |->
        LET count == IF value \in DOMAIN counts THEN counts[value] ELSE 1
        IN  Quotient(centrality[value], count)]

Report == [averages |-> averages, allergy_centrality |-> allergy_centrality]

----------------------------------------------------------------------------
(* Input records *)

SubjectIds == {"205650", "205651"}

Genders == {"Male", "Female"}

Races == {"Race1", "Race2"}

Ethnicities == {"Ethnicity1", "Ethnicity2"}

Payers == {"Payer1", "Payer2"}

MkRecord(id, gender, race, ethnicity, payer, cohort, onset) ==
    [subject_id          |-> id,
     gender_factor       |-> gender,
     race_factor         |-> race,
     ethnicity_factor    |-> ethnicity,
     payer_factor        |-> payer,
     atopic_march_cohort |-> cohort,
     peanut_alg_start    |-> onset[1],
     treenut_alg_start   |-> onset[2],
     walnut_alg_start    |-> onset[3],
     pecan_alg_start     |-> onset[4],
     pistach_alg_start   |-> onset[5],
     almond_alg_start    |-> onset[6],
     brazil_alg_start    |-> onset[7],
     hazelnut_alg_start  |-> onset[8],
     cashew_alg_start    |-> onset[9]]

(* onset markers of a record: the categories of `present` carry Some(v) *)
Onsets(present, v) ==
    [k \in 1..9 |-> IF k \in present THEN Some(v) ELSE None]

(* every single category, no category, several, all; Some(0.0) and Some(1.0) *)
OnsetPatterns ==
    {Onsets({k}, 1) : k \in 1..9}
        \cup {Onsets({}, 1), Onsets({1}, 0), Onsets({2, 3, 9}, 1),
              Onsets({7, 8}, 1), Onsets(1..9, 1)}

DegreePatterns == {Onsets({1}, 1), Onsets({2, 3, 9}, 1)}

BaseProfile == <<"Male", "Race1", "Ethnicity1", "Payer1", TRUE>>

(* the demographic profiles that differ from the base one in no dimension,
   in exactly one, or in all five *)
Profiles ==
    {p \in Genders \X Races \X Ethnicities \X Payers \X BOOLEAN :
        Cardinality({d \in 1..5 : p[d] # BaseProfile[d]}) \in {0, 1, 5}}

ProfileRecord(id, p, onset) == MkRecord(id, p[1], p[2], p[3], p[4], p[5], onset)

InputRecords ==
    {ProfileRecord("205650", BaseProfile, o) : o \in OnsetPatterns}
        \cup {ProfileRecord("205650", p, o) : p \in Profiles, o \in DegreePatterns}
        \cup {ProfileRecord("205651", BaseProfile, o) : o \in DegreePatterns}

RECURSIVE SeqsUpTo(_, _)
SeqsUpTo(S, n) ==
    IF n = 0 THEN {<<>>}
    ELSE LET shorter == SeqsUpTo(S, n - 1)
         IN  shorter \cup {Append(s, x) : s \in {t \in shorter : Len(t) = n - 1}, x \in S}

----------------------------------------------------------------------------
(* State machine *)

Init ==
    /\ records \in SeqsUpTo(InputRecords, MaxRecords)
    /\ run = 1
    /\ pc = "main"
    /\ graph = NewGraph
    /\ individual_nodes = NewHashMap
    /\ allergy_nodes = NewHashMap
    /\ next_allergy = 1
    /\ next_record = 1
    /\ node = 0
    /\ gender_centrality = NewHashMap
    /\ race_centrality = NewHashMap
    /\ ethnicity_centrality = NewHashMap
    /\ payer_centrality = NewHashMap
    /\ cohort_centrality = NewHashMap
    /\ allergy_centrality = NewHashMap
    /\ gender_counts = NewHashMap
    /\ race_counts = NewHashMap
    /\ ethnicity_counts = NewHashMap
    /\ payer_counts = NewHashMap
    /\ cohort_counts = NewHashMap
    /\ printed_degree = NewHashMap
    /\ averages = NewHashMap
    /\ first_report = NewHashMap

(* main calls create_graph(records): a fresh graph and fresh maps *)
CreateGraphEntry ==
    /\ pc = "main"
    /\ pc' = "allergy_nodes"
    /\ graph' = NewGraph
    /\ individual_nodes' = NewHashMap
    /\ allergy_nodes' = NewHashMap
    /\ next_allergy' = 1
    /\ next_record' = 1
    /\ UNCHANGED <<records, run, node, centrality_vars, averages, first_report>>

(* one iteration of the category loop of create_graph *)
AddAllergyNode ==
    /\ pc = "allergy_nodes"
    /\ next_allergy <= Len(Allergies)
    /\ LET allergy == Allergies[next_allergy]
       IN  /\ graph' = AddNode(graph, NutAllergyStatus(allergy))
           /\ allergy_nodes' = Insert(allergy_nodes, allergy, NodeCount(graph))
    /\ next_allergy' = next_allergy + 1
    /\ pc' = IF next_allergy = Len(Allergies) THEN "records" ELSE pc
    /\ UNCHANGED <<records, run, individual_nodes, next_record, node,
                   centrality_vars, averages, first_report>>

(* variant: a record whose subject_id is already in individual_nodes reuses
   that node *)
AddRecordDeduplicating ==
    /\ pc = "records"
    /\ next_record <= Len(records)
    /\ LET record == records[next_record]
           known == record.subject_id \in DOMAIN individual_nodes
           individual_node == IF known THEN individual_nodes[record.subject_id]
                              ELSE NodeCount(graph)
           g1 == IF known THEN graph ELSE AddNode(graph, IndividualOf(record))
       IN  /\ individual_nodes' = Insert(individual_nodes, record.subject_id, individual_node)
           /\ graph' = AddAllergyEdges(g1, record, individual_node, allergy_nodes, 1)
    /\ next_record' = next_record + 1
    /\ UNCHANGED <<records, run, pc, allergy_nodes, next_allergy, node,
                   centrality_vars, averages, first_report>>

(* one iteration of `for record in records`, its inner loop included *)
AddRecord ==
    /\ pc = "records"
    /\ next_record <= Len(records)
    /\ LET record == records[next_record]
           individual_node == NodeCount(graph)
           g1 == AddNode(graph, IndividualOf(record))
       IN  /\ individual_nodes' = Insert(individual_nodes, record.subject_id, individual_node)
           /\ graph' = AddAllergyEdges(g1, record, individual_node, allergy_nodes, 1)
    /\ next_record' = next_record + 1
    /\ UNCHANGED <<records, run, pc, allergy_nodes, next_allergy, node,
                   centrality_vars, averages, first_report>>

(* variant: the five degree-sum maps outlive the call *)
CalculateCentralityEntryKeepingSums ==
    /\ pc = "records"
    /\ next_record > Len(records)
    /\ pc' = "nodes"
    /\ node' = 0
    /\ allergy_centrality' = NewHashMap
    /\ gender_counts' = NewHashMap
    /\ race_counts' = NewHashMap
    /\ ethnicity_counts' = NewHashMap
    /\ payer_counts' = NewHashMap
    /\ cohort_counts' = NewHashMap
    /\ printed_degree' = NewHashMap
    /\ averages' = NewHashMap
    /\ UNCHANGED <<records, run, builder_vars, first_report, gender_centrality,
                   race_centrality, ethnicity_centrality, payer_centrality,
                   cohort_centrality>>

(* create_graph returns; main calls calculate_centrality(&graph), whose
   eleven maps start empty *)
CalculateCentralityEntry ==
    /\ pc = "records"
    /\ next_record > Len(records)
    /\ pc' = "nodes"
    /\ node' = 0
    /\ gender_centrality' = NewHashMap
    /\ race_centrality' = NewHashMap
    /\ ethnicity_centrality' = NewHashMap
    /\ payer_centrality' = NewHashMap
    /\ cohort_centrality' = NewHashMap
    /\ allergy_centrality' = NewHashMap
    /\ gender_counts' = NewHashMap
    /\ race_counts' = NewHashMap
    /\ ethnicity_counts' = NewHashMap
    /\ payer_counts' = NewHashMap
    /\ cohort_counts' = NewHashMap
    /\ printed_degree' = NewHashMap
    /\ averages' = NewHashMap
    /\ UNCHANGED <<records, run, builder_vars, first_report>>

NextNode ==
    /\ node' = node + 1
    /\ pc' = IF node + 1 = NodeCount(graph) THEN "gender_average" ELSE pc

(* the NodeType::Individual arm *)
VisitIndividual ==
    /\ pc = "nodes"
    /\ node < NodeCount(graph)
    /\ Weight(graph, node).kind = "Individual"
    /\ LET individual == Weight(graph, node)
           degree == NeighborsCount(graph, node)
           cohort == BoolToString(individual.atopic_march_cohort)
       IN  /\ printed_degree' = Insert(printed_degree, node, degree)
           /\ gender_centrality' = AddDegree(gender_centrality, individual.gender, degree)
           /\ race_centrality' = AddDegree(race_centrality, individual.race, degree)
           /\ ethnicity_centrality' = AddDegree(ethnicity_centrality, individual.ethnicity, degree)
           /\ payer_centrality' = AddDegree(payer_centrality, individual.payer_factor, degree)
           /\ cohort_centrality' = AddDegree(cohort_centrality, cohort, degree)
           /\ gender_counts' = AddCount(gender_counts, individual.gender)
           /\ race_counts' = AddCount(race_counts, individual.race)
           /\ ethnicity_counts' = AddCount(ethnicity_counts, individual.ethnicity)
           /\ payer_counts' = AddCount(payer_counts, individual.payer_factor)
           /\ cohort_counts' = AddCount(cohort_counts, cohort)
    /\ NextNode
    /\ UNCHANGED <<records, run, builder_vars, allergy_centrality, averages,
                   first_report>>

(* the NodeType::NutAllergyStatus arm *)
VisitAllergy ==
    /\ pc = "nodes"
    /\ node < NodeCount(graph)
    /\ Weight(graph, node).kind = "NutAllergyStatus"
    /\ LET allergy_status == Weight(graph, node).name
       IN  allergy_centrality' =
               IF Contains(CentralityAllergies, allergy_status)
               THEN Insert(allergy_centrality, allergy_status,
                           NeighborsCount(graph, node))
               ELSE allergy_centrality
    /\ NextNode
    /\ UNCHANGED <<records, run, builder_vars, gender_centrality,
                   race_centrality, ethnicity_centrality, payer_centrality,
                   cohort_centrality, gender_counts, race_counts,
                   ethnicity_counts, payer_counts, cohort_counts,
                   printed_degree, averages, first_report>>

AverageStep(at, label, centrality, counts, then) ==
    /\ pc = at
    /\ averages' = Insert(averages, label, AverageOf(centrality, counts))
    /\ pc' = then
    /\ UNCHANGED <<records, run, builder_vars, node, centrality_vars, first_report>>

GenderAverage ==
    AverageStep("gender_average", "gender", gender_centrality, gender_counts,
                "race_average")

RaceAverage ==
    AverageStep("race_average", "race", race_centrality, race_counts,
                "ethnicity_average")

EthnicityAverage ==
    AverageStep("ethnicity_average", "ethnicity", ethnicity_centrality,
                ethnicity_counts, "payer_average")

PayerAverage ==
    AverageStep("payer_average", "payer factor", payer_centrality, payer_counts,
                "cohort_average")

CohortAverage ==
    AverageStep("cohort_average", "atopic march cohort", cohort_centrality,
                cohort_counts, "done")

(* the pipeline is run a second time on the same records *)
RunAgain ==
    /\ pc = "done"
    /\ run = 1
    /\ run' = 2
    /\ first_report' = Report
    /\ pc' = "main"
    /\ UNCHANGED <<records, builder_vars, node, centrality_vars, averages>>

Next ==
    \/ CreateGraphEntry
    \/ AddAllergyNode
    \/ AddRecord
    \/ CalculateCentralityEntry
    \/ VisitIndividual
    \/ VisitAllergy
    \/ GenderAverage
    \/ RaceAverage
    \/ EthnicityAverage
    \/ PayerAverage
    \/ CohortAverage
    \/ RunAgain

Spec == Init /\ [][Next]_vars

----------------------------------------------------------------------------
(* Vocabulary of the properties, stated on the input and on the graph and
   not through the operators of the implementation *)

NineCategories ==
    <<"Peanut", "Treenut", "Walnut", "Pecan", "Pistachio", "Almond", "Brazil",
      "Hazelnut", "Cashew">>

SevenAnalyzed ==
    {"Peanut", "Treenut", "Walnut", "Pecan", "Pistachio", "Almond", "Cashew"}

(* the nine onset markers of a record, in the order of NineCategories *)
Markers(record) ==
    <<record.peanut_alg_start, record.treenut_alg_start,
      record.walnut_alg_start, record.pecan_alg_start,
      record.pistach_alg_start, record.almond_alg_start,
      record.brazil_alg_start, record.hazelnut_alg_start,
      record.cashew_alg_start>>

Present(record, k) == Markers(record)[k] # <<>>

PresentCount(record) == Cardinality({k \in 1..9 : Present(record, k)})

NodeIndices == 0..(Len(graph.nodes) - 1)

IndividualIndices == {n \in NodeIndices : graph.nodes[n + 1].kind = "Individual"}

CategoryIndices == {n \in NodeIndices : graph.nodes[n + 1].kind = "NutAllergyStatus"}

(* the nodes that carry category `name` *)
CategoryNodes(name) ==
    {n \in CategoryIndices : graph.nodes[n + 1].name = name}

(* number of edges from node a to node b *)
EdgesBetween(a, b) ==
    Cardinality({e \in 1..Len(graph.edges) : graph.edges[e] = <<a, b>>})

(* degree: the number of edges incident to a node *)
IncidentEdges(n) ==
    Cardinality({e \in 1..Len(graph.edges) :
                    graph.edges[e][1] = n \/ graph.edges[e][2] = n})

RECURSIVE SumOfDegrees(_)
SumOfDegrees(S) ==
    IF S = {} THEN 0
    ELSE LET n == CHOOSE x \in S : TRUE
         IN  IncidentEdges(n) + SumOfDegrees(S \ {n})

(* records consumed so far by the record loop of the current graph *)
Processed == next_record - 1

(* the node of the r-th record (1-based): index 9 + (r - 1) *)
NodeOfRecord(r) == 9 + (r - 1)

InPass == pc = "nodes"

AfterPass ==
    pc \in {"gender_average", "race_average", "ethnicity_average",
            "payer_average", "cohort_average", "done"}

CategoriesBuilt == pc = "records" \/ InPass \/ AfterPass

GraphBuilt == InPass \/ AfterPass

(* the attribute of an Individual node in one of the five dimensions *)
Attribute(label, w) ==
    CASE label = "gender"              -> w.gender
      [] label = "race"                -> w.race
      [] label = "ethnicity"           -> w.ethnicity
      [] label = "payer factor"        -> w.payer_factor
      [] label = "atopic march cohort" ->
             IF w.atopic_march_cohort THEN "true" ELSE "false"

Dimensions == {"gender", "race", "ethnicity", "payer factor", "atopic march cohort"}

Members(label, v) ==
    {n \in IndividualIndices : Attribute(label, graph.nodes[n + 1]) = v}

ValuesOf(label) ==
    {Attribute(label, graph.nodes[n + 1]) : n \in IndividualIndices}

----------------------------------------------------------------------------
(* C1: once the node pass is over, the degree recorded for each analyzed
   category equals the number of Individual nodes with an edge to that
   category's node; a single record with only the Peanut onset present
   gives Peanut 1 and the six others 0. *)
C1_CategoryDegreeCountsIndividuals ==
    AfterPass =>
        \A c \in DOMAIN allergy_centrality :
            \A a \in CategoryNodes(c) :
                allergy_centrality[c] =
                    Cardinality({n \in IndividualIndices : EdgesBetween(n, a) > 0})

----------------------------------------------------------------------------
(* C2: for every processed record r and each of the nine categories c, the
   graph holds exactly one edge from r's Individual node to c's category
   node when r's onset marker for c is present, whatever its value, and
   none when it is missing. *)
C2_EdgeIffOnsetPresent ==
    Processed > 0 =>
        \A k \in 1..9 :
            LET category == CategoryNodes(NineCategories[k])
            IN  /\ Cardinality(category) = 1
                /\ \A a \in category :
                       \A r \in 1..Processed :
                           EdgesBetween(NodeOfRecord(r), a) =
                               IF Present(records[r], k) THEN 1 ELSE 0

C2_Witness ==
    /\ pc = "nodes"
    /\ \E r \in 1..Len(records) :
           /\ records[r].peanut_alg_start = <<0>>
           /\ records[r].treenut_alg_start = <<>>
           /\ EdgesBetween(NodeOfRecord(r), 0) = 1
           /\ EdgesBetween(NodeOfRecord(r), 1) = 0

----------------------------------------------------------------------------
(* C3: the degree computed for an Individual node equals the number of its
   source record's nine onset fields that are present, and after the pass
   every Individual node has had its degree computed. *)
C3_IndividualDegreeIsPresentCount ==
    (InPass \/ AfterPass) =>
        /\ \A n \in DOMAIN printed_degree :
               /\ n \in IndividualIndices
               /\ printed_degree[n] = PresentCount(records[n - 9 + 1])
        /\ AfterPass => DOMAIN printed_degree = IndividualIndices

C3_Witness ==
    /\ AfterPass
    /\ \E n \in DOMAIN printed_degree :
           /\ printed_degree[n] = 3
           /\ records[n - 9 + 1].cashew_alg_start = <<1>>
    /\ \E n \in DOMAIN printed_degree : printed_degree[n] = 0

----------------------------------------------------------------------------
(* C4: once the category loop is over, and after any prefix of the records,
   the graph has exactly 9 category nodes, one for each of the nine names. *)
C4_NineCategoryNodes ==
    CategoriesBuilt =>
        /\ Cardinality(CategoryIndices) = 9
        /\ \A k \in 1..9 : Cardinality(CategoryNodes(NineCategories[k])) = 1

C4_Witness ==
    /\ pc = "records"
    /\ Len(records) = 2
    /\ Processed = 1
    /\ Cardinality(CategoryIndices) = 9

----------------------------------------------------------------------------
(* C5: when the averages have been computed, each dimension's mapping has
   exactly the values occurring among the Individual nodes as keys, and
   the average of value v is the sum of the degrees of the nodes carrying
   v divided by their number. *)
C5_AverageIsSumOverCount ==
    AfterPass =>
        \A label \in DOMAIN averages :
            /\ label \in Dimensions
            /\ DOMAIN averages[label] = ValuesOf(label)
            /\ \A v \in DOMAIN averages[label] :
                   LET avg == averages[label][v]
                       members == Members(label, v)
                   IN  /\ avg[2] >= 1
                       /\ avg[1] * Cardinality(members) =
                              SumOfDegrees(members) * avg[2]

(* two records of the same gender with degrees 1 and 3: sum 4, count 2,
   average 2.0 *)
C5_Witness ==
    /\ pc = "done"
    /\ Len(records) = 2
    /\ records[1].gender_factor = records[2].gender_factor
    /\ PresentCount(records[1]) = 1
    /\ PresentCount(records[2]) = 3
    /\ gender_centrality[records[1].gender_factor] = 4
    /\ gender_counts[records[1].gender_factor] = 2
    /\ averages["gender"][records[1].gender_factor] = <<2, 1>>
    /\ DOMAIN averages = Dimensions

----------------------------------------------------------------------------
(* C6: in every state, every edge starts at an Individual node and ends at
   a category node. *)
C6_EdgesIndividualToCategory ==
    \A e \in 1..Len(graph.edges) :
        /\ graph.edges[e][1] \in IndividualIndices
        /\ graph.edges[e][2] \in CategoryIndices

C6_Witness ==
    /\ pc = "records"
    /\ Processed = 1
    /\ Len(graph.edges) = 9

----------------------------------------------------------------------------
(* C7: after the node pass the category-degree mapping has exactly the
   seven analyzed categories as keys, whatever the records hold, and for
   the empty record sequence all seven degrees are 0. *)
C7_SevenCategoryKeys ==
    AfterPass =>
        /\ DOMAIN allergy_centrality = SevenAnalyzed
        /\ records = <<>> => \A c \in SevenAnalyzed : allergy_centrality[c] = 0

C7_Witness ==
    /\ pc = "done"
    /\ \E r \in 1..Len(records) :
           /\ records[r].brazil_alg_start # <<>>
           /\ records[r].hazelnut_alg_start # <<>>
           /\ records[r].peanut_alg_start = <<>>
    /\ "Brazil" \notin DOMAIN allergy_centrality
    /\ "Peanut" \in DOMAIN allergy_centrality

----------------------------------------------------------------------------
(* C8: when create_graph has consumed all n records the graph has 9 + n
   nodes; the i-th record (from 0) is the Individual node at index 9 + i,
   carrying the record's identifier and five attributes verbatim and
   having its own edges, also when identifiers repeat; after any prefix
   the same holds of the records consumed so far. *)
C8_OneNodePerRecordInOrder ==
    CategoriesBuilt =>
        /\ Len(graph.nodes) = 9 + Processed
        /\ \A n \in 0..8 : graph.nodes[n + 1].kind = "NutAllergyStatus"
        /\ \A r \in 1..Processed :
               LET w == graph.nodes[NodeOfRecord(r) + 1]
               IN  /\ w.kind = "Individual"
                   /\ w.id = records[r].subject_id
                   /\ w.gender = records[r].gender_factor
                   /\ w.race = records[r].race_factor
                   /\ w.ethnicity = records[r].ethnicity_factor
                   /\ w.payer_factor = records[r].payer_factor
                   /\ w.atopic_march_cohort = records[r].atopic_march_cohort
                   /\ IncidentEdges(NodeOfRecord(r)) = PresentCount(records[r])
        /\ GraphBuilt => Processed = Len(records)

(* two records with the same identifier and different onsets *)
C8_Witness ==
    /\ pc = "nodes"
    /\ Len(records) = 2
    /\ records[1].subject_id = records[2].subject_id
    /\ Len(graph.nodes) = 11
    /\ IncidentEdges(9) = 1
    /\ IncidentEdges(10) = 3

----------------------------------------------------------------------------
(* C9: the second run over the same records ends with the report of the
   first run. *)
C9_SecondRunSameReport ==
    (run = 2 /\ pc = "done") => Report = first_report

C9_Witness ==
    /\ run = 2
    /\ pc = "done"
    /\ Len(records) = 2
    /\ Len(graph.edges) > 0
    /\ Cardinality(DOMAIN averages["gender"]) = 2
    /\ Report = first_report

----------------------------------------------------------------------------
(* C10: during and after the node pass, in each of the five dimensions the
   degree-sum map and the member-count map have the same keys and every
   count is at least 1, so no average takes the fallback count and no
   average divides by zero. *)
SameKeysPositiveCounts(centrality, counts) ==
    /\ DOMAIN centrality = DOMAIN counts
    /\ \A key \in DOMAIN counts : counts[key] >= 1

C10_CountsCoverSums ==
    (InPass \/ AfterPass) =>
        /\ SameKeysPositiveCounts(gender_centrality, gender_counts)
        /\ SameKeysPositiveCounts(race_centrality, race_counts)
        /\ SameKeysPositiveCounts(ethnicity_centrality, ethnicity_counts)
        /\ SameKeysPositiveCounts(payer_centrality, payer_counts)
        /\ SameKeysPositiveCounts(cohort_centrality, cohort_counts)

C10_Witness ==
    /\ InPass
    /\ node = 10
    /\ Len(records) = 2
    /\ DOMAIN gender_counts = {records[1].gender_factor}
    /\ records[2].gender_factor # records[1].gender_factor
    /\ gender_centrality[records[1].gender_factor] = 0

====
